---------------------------- MODULE Spec2Model ----------------------------
(***************************************************************************)
(* A model of the password-recovery programs of this repository            *)
(* (cracker.py, wordonly.py, patternanalysis.py): the loaders of the       *)
(* digest list, the dictionary and the result cache, the match engine      *)
(* (test), the strategy orchestration of main, and the cache merge/save.   *)
(*                                                                         *)
(* Text is modelled at character level: a string is a sequence of          *)
(* one-character strings, a file is such a sequence with "\n" characters.  *)
(***************************************************************************)
EXTENDS Integers, Sequences, FiniteSets, TLC

(***************************************************************************)
(* Characters                                                              *)
(***************************************************************************)

\* ord(c), up to the order: the characters of the model numbered in
\* code-point order (Python compares strings by code point)
CodePoints ==
    ("\n" :> 1) @@ (" " :> 2) @@ ("!" :> 3) @@ ("-" :> 4) @@ ("." :> 5) @@
    ("0" :> 6) @@ ("1" :> 7) @@ ("2" :> 8) @@ ("3" :> 9) @@ ("4" :> 10) @@
    ("5" :> 11) @@ ("6" :> 12) @@ ("7" :> 13) @@ ("8" :> 14) @@ ("9" :> 15) @@
    ("@" :> 16) @@ ("A" :> 17) @@ ("B" :> 18) @@ ("C" :> 19) @@ ("D" :> 20) @@
    ("F" :> 21) @@ ("_" :> 22) @@ ("a" :> 23) @@ ("b" :> 24) @@ ("c" :> 25) @@
    ("d" :> 26) @@ ("f" :> 27) @@ ("x" :> 28) @@ ("y" :> 29)

Ord(c) == CodePoints[c]

\* str.lower() / str.upper() on one character
LowerChar(c) ==
    CASE c = "A" -> "a" [] c = "B" -> "b" [] c = "C" -> "c"
      [] c = "D" -> "d" [] c = "F" -> "f" [] OTHER -> c

UpperChar(c) ==
    CASE c = "a" -> "A" [] c = "b" -> "B" [] c = "c" -> "C"
      [] c = "d" -> "D" [] c = "f" -> "F" [] OTHER -> c

\* str.isspace() on one character of the alphabet
IsSpace(c) == c \in {" ", "\n"}

IsDigit(c) == c \in {"0", "1", "2", "3", "4", "5", "6", "7", "8", "9"}

\* str.lower() / str.upper()
RECURSIVE Lower(_)
Lower(s) == IF s = << >> THEN << >> ELSE << LowerChar(s[1]) >> \o Lower(Tail(s))

RECURSIVE Upper(_)
Upper(s) == IF s = << >> THEN << >> ELSE << UpperChar(s[1]) >> \o Upper(Tail(s))

\* s < t for Python strings (lexicographic by code point)
RECURSIVE StrLess(_, _)
StrLess(s, t) ==
    IF t = << >> THEN FALSE
    ELSE IF s = << >> THEN TRUE
    ELSE IF s[1] # t[1] THEN Ord(s[1]) < Ord(t[1])
    ELSE StrLess(Tail(s), Tail(t))

\* Concatenation of a sequence of strings
RECURSIVE Concat(_)
Concat(ss) == IF ss = << >> THEN << >> ELSE Head(ss) \o Concat(Tail(ss))

(***************************************************************************)
(* Text helpers of the loaders                                             *)
(***************************************************************************)

\* Iterating a text file: the lines, each with its "\n" except possibly the
\* last one.
RECURSIVE FileLines(_)
FileLines(f) ==
    IF f = << >> THEN << >>
    ELSE LET nl == {i \in 1..Len(f) : f[i] = "\n"}
         IN  IF nl = {} THEN << f >>
             ELSE LET k == CHOOSE i \in nl : \A j \in nl : i <= j
                  IN  << SubSeq(f, 1, k) >> \o FileLines(SubSeq(f, k + 1, Len(f)))

\* line.rstrip("\n")
RECURSIVE RStripNewline(_)
RStripNewline(s) ==
    IF s # << >> /\ s[Len(s)] = "\n" THEN RStripNewline(SubSeq(s, 1, Len(s) - 1))
    ELSE s

\* line.strip()
RECURSIVE LStrip(_)
LStrip(s) == IF s # << >> /\ IsSpace(s[1]) THEN LStrip(Tail(s)) ELSE s

RECURSIVE RStrip(_)
RStrip(s) ==
    IF s # << >> /\ IsSpace(s[Len(s)]) THEN RStrip(SubSeq(s, 1, Len(s) - 1))
    ELSE s

Strip(s) == LStrip(RStrip(s))

\* s.split(): the maximal runs of non-whitespace characters
RECURSIVE SplitWs(_)
SplitWs(s) ==
    LET t == LStrip(s)
    IN  IF t = << >> THEN << >>
        ELSE LET sp == {i \in 1..Len(t) : IsSpace(t[i])}
             IN  IF sp = {} THEN << t >>
                 ELSE LET k == CHOOSE i \in sp : \A j \in sp : i <= j
                      IN  << SubSeq(t, 1, k - 1) >> \o SplitWs(SubSeq(t, k, Len(t)))

\* s.split(" ", 1): cut at the first space, if there is one
SplitFirstSpace(s) ==
    LET sp == {i \in 1..Len(s) : s[i] = " "}
    IN  IF sp = {} THEN << s >>
        ELSE LET k == CHOOSE i \in sp : \A j \in sp : i <= j
             IN  << SubSeq(s, 1, k - 1), SubSeq(s, k + 1, Len(s)) >>

(***************************************************************************)
(* Dictionaries (Python dict) are functions; d[k] = v is DictPut.          *)
(***************************************************************************)

EmptyDict == [k \in {} |-> << >>]

DictPut(d, k, v) == [x \in DOMAIN d \cup {k} |-> IF x = k THEN v ELSE d[x]]

\* d.update(e): every key of e is written over d
DictUpdate(d, e) ==
    [x \in DOMAIN d \cup DOMAIN e |-> IF x \in DOMAIN e THEN e[x] ELSE d[x]]

(***************************************************************************)
(* Utilities of the programs                                               *)
(***************************************************************************)

\* The size of the digest space of the model
HashSpace == 3

DigitChars == << "0", "1", "2", "3", "4", "5", "6", "7", "8", "9" >>

RECURSIVE SumOrd(_)
SumOrd(s) == IF s = << >> THEN 0 ELSE Ord(s[1]) + SumOrd(Tail(s))

\* sha1_hex: hashlib's SHA-1 is outside the repository; here a checksum into a
\* digest space of HashSpace lowercase hex strings, so that distinct
\* candidates may share a digest.
sha1_hex(s) == << "a", DigitChars[(SumOrd(s) % HashSpace) + 1] >>

\* A variant of HashLineStep that reads the first two fields of a line of two
\* fields or more
HashLineStep_TwoOrMore(t, line) ==
    LET parts == SplitWs(Strip(line))
    IN  IF Len(parts) >= 2
        THEN LET user_id  == parts[1]
                 hash_hex == Lower(parts[2])
                 ids      == IF hash_hex \in DOMAIN t.hash_to_ids
                             THEN t.hash_to_ids[hash_hex] ELSE << >>
             IN  [id_to_hash  |-> DictPut(t.id_to_hash, user_id, hash_hex),
                  id_order    |-> IF user_id \in DOMAIN t.id_to_hash
                                  THEN t.id_order
                                  ELSE Append(t.id_order, user_id),
                  hash_to_ids |-> DictPut(t.hash_to_ids, hash_hex,
                                          Append(ids, user_id))]
        ELSE t

\* One line of load_hashes applied to (id_to_hash, hash_to_ids). id_order is
\* the order of the keys of id_to_hash: a Python dict keeps its keys in the
\* order of their first insertion.
HashLineStep(t, line) ==
    LET parts == SplitWs(Strip(line))
    IN  IF Len(parts) = 2
        THEN LET user_id  == parts[1]
                 hash_hex == Lower(parts[2])
                 ids      == IF hash_hex \in DOMAIN t.hash_to_ids
                             THEN t.hash_to_ids[hash_hex] ELSE << >>
             IN  [id_to_hash  |-> DictPut(t.id_to_hash, user_id, hash_hex),
                  id_order    |-> IF user_id \in DOMAIN t.id_to_hash
                                  THEN t.id_order
                                  ELSE Append(t.id_order, user_id),
                  hash_to_ids |-> DictPut(t.hash_to_ids, hash_hex,
                                          Append(ids, user_id))]
        ELSE t

RECURSIVE HashLinesFrom(_, _)
HashLinesFrom(t, lines) ==
    IF lines = << >> THEN t
    ELSE HashLinesFrom(HashLineStep(t, Head(lines)), Tail(lines))

load_hashes(password_file) ==
    HashLinesFrom([id_to_hash |-> EmptyDict, id_order |-> << >>,
                   hash_to_ids |-> EmptyDict],
                  FileLines(password_file))

Range(q) == {q[i] : i \in 1..Len(q)}

RECURSIVE DictLinesFrom(_, _)
DictLinesFrom(words, lines) ==
    IF lines = << >> THEN words
    ELSE LET w == Lower(Strip(Head(lines)))
         IN  DictLinesFrom(IF w # << >> /\ w \notin Range(words)
                           THEN Append(words, w) ELSE words,
                           Tail(lines))

\* A variant of load_dictionary with no `w not in seen`
load_dictionary_KeepAll(dict_file) ==
    LET lines == FileLines(dict_file)
        nonempty(w) == w # << >>
    IN  SelectSeq([i \in 1..Len(lines) |-> Lower(Strip(lines[i]))], nonempty)

load_dictionary(dict_file) == DictLinesFrom(<< >>, FileLines(dict_file))

\* One line of load_cache applied to the cache dictionary
CacheLineStep(c, line) ==
    LET parts == SplitFirstSpace(RStripNewline(line))
    IN  IF Len(parts) = 2 THEN DictPut(c, Lower(parts[1]), parts[2]) ELSE c

RECURSIVE CacheLinesFrom(_, _)
CacheLinesFrom(c, lines) ==
    IF lines = << >> THEN c
    ELSE CacheLinesFrom(CacheLineStep(c, Head(lines)), Tail(lines))

\* The cache file is a record: whether it exists (os.path.exists) and its text
NoFile == [exists |-> FALSE, text |-> << >>]

FileOf(text) == [exists |-> TRUE, text |-> text]

load_cache(cache_file) ==
    IF cache_file.exists THEN CacheLinesFrom(EmptyDict, FileLines(cache_file.text))
    ELSE EmptyDict

\* sorted(keys): ascending by code point
RECURSIVE SortedStrings(_)
SortedStrings(S) ==
    IF S = {} THEN << >>
    ELSE LET m == CHOOSE x \in S : \A y \in S \ {x} : StrLess(x, y)
         IN  << m >> \o SortedStrings(S \ {m})

\* A variant of CacheRecord that ends no line: f"{h} {pw}"
CacheRecord_NoNewline(h, pw) == h \o << " " >> \o pw

\* The record save_cache writes for one item: f"{h} {pw}\n"
CacheRecord(h, pw) == h \o << " " >> \o pw \o << "\n" >>

\* sorted(cache_dict.items()): the keys of a dict are distinct, so the items
\* are ordered by key
SortedItems(cache_dict) ==
    LET ks == SortedStrings(DOMAIN cache_dict)
    IN  [i \in 1..Len(ks) |-> << ks[i], cache_dict[ks[i]] >>]

\* The whole content save_cache leaves in the file
save_cache(cache_dict) ==
    LET items == SortedItems(cache_dict)
    IN  Concat([i \in 1..Len(items) |-> CacheRecord(items[i][1], items[i][2])])

(***************************************************************************)
(* Candidate generation of CreativeCracker (cracker.py)                    *)
(***************************************************************************)

TRY_DIGITS_BETWEEN_WORDS == TRUE
TRY_DIGITS_PREFIX == TRUE
TRY_SPECIAL_CHARS == TRUE
TRY_CAPITALIZATION == TRUE
TRY_REVERSE_WORDS == TRUE
TRY_PARTIAL_WORDS == TRUE

\* The radix of the digit strings (10 in the source): range(1000), range(100),
\* range(10) and 10 ** num_digits are Radix^3, Radix^2, Radix and
\* Radix^num_digits here, and str(d) writes d in this radix.
Radix == 2

\* The iterations of the random sampling loops (SAMPLE_SIZE,
\* SAMPLE_4_WORD_COMBOS, RANDOM_SAMPLE_SIZE in the source)
MaxSamples == 2

RECURSIVE Pow(_, _)
Pow(b, n) == IF n = 0 THEN 1 ELSE b * Pow(b, n - 1)

\* str(d)
RECURSIVE DigitStr(_)
DigitStr(d) ==
    IF d < Radix THEN << DigitChars[d + 1] >>
    ELSE DigitStr(d \div Radix) \o << DigitChars[(d % Radix) + 1] >>

\* A variant of ZFill that pads nothing
ZFill_None(s, n) == s

\* s.zfill(n)
RECURSIVE ZFill(_, _)
ZFill(s, n) == IF Len(s) >= n THEN s ELSE ZFill(<< "0" >> \o s, n)

\* q[:n]
Take(q, n) == SubSeq(q, 1, IF Len(q) < n THEN Len(q) ELSE n)

\* s[::-1]
RECURSIVE Reverse(_)
Reverse(s) == IF s = << >> THEN << >> ELSE Append(Reverse(Tail(s)), s[1])

\* s.capitalize()
Capitalize(s) ==
    IF s = << >> THEN << >> ELSE << UpperChar(s[1]) >> \o Lower(Tail(s))

\* sorted(words, key=len): stable, ascending by length
RECURSIVE InsertByLen(_, _)
InsertByLen(sorted, w) ==
    IF sorted = << >> THEN << w >>
    ELSE IF Len(sorted[Len(sorted)]) <= Len(w) THEN Append(sorted, w)
    ELSE Append(InsertByLen(SubSeq(sorted, 1, Len(sorted) - 1), w),
                sorted[Len(sorted)])

RECURSIVE SortedByLen(_)
SortedByLen(words) ==
    IF words = << >> THEN << >>
    ELSE InsertByLen(SortedByLen(SubSeq(words, 1, Len(words) - 1)),
                     words[Len(words)])

\* CreativeCracker.__init__: sorted(words, key=len)[:500]
ShortWords(ws) == Take(SortedByLen(ws), 500)

\* range(n) as a sequence
RangeSeq(n) == [i \in 1..n |-> i - 1]

\* Nested for-loops are written outermost first: Concat over the outer
\* sequence of the candidates of the inner loops.

\* digits_between_words: the three patterns, in order
DigitsBetweenCands(sw) ==
    LET s200 == Take(sw, 200)
        s100 == Take(sw, 100)
        r3 == RangeSeq(Pow(Radix, 3))
        r2 == RangeSeq(Pow(Radix, 2))
        r1 == RangeSeq(Radix)
    IN  Concat([i \in 1..Len(sw) |-> Concat([j \in 1..Len(sw) |->
            [d \in 1..Len(r3) |-> sw[i] \o DigitStr(r3[d]) \o sw[j]]])])
        \o
        Concat([i \in 1..Len(s200) |-> Concat([j \in 1..Len(s200) |->
          Concat([k \in 1..Len(s200) |->
            [d \in 1..Len(r2) |->
                s200[i] \o DigitStr(r2[d]) \o s200[j] \o s200[k]]])])])
        \o
        Concat([i \in 1..Len(s100) |-> Concat([j \in 1..Len(s100) |->
          Concat([k \in 1..Len(s100) |-> Concat([l \in 1..Len(s100) |->
            [d \in 1..Len(r1) |->
                s100[i] \o DigitStr(r1[d]) \o s100[j] \o s100[k] \o s100[l]]])])])])

\* digits_prefix: the candidates of one prefix
PrefixCands(sw, num_digits, d) ==
    LET s300 == Take(sw, 300)
        s100 == Take(sw, 100)
        prefix == ZFill(DigitStr(d), num_digits)
    IN  Concat([i \in 1..Len(s300) |->
            [j \in 1..Len(s300) |-> prefix \o s300[i] \o s300[j]]])
        \o
        (IF num_digits <= 2
         THEN Concat([i \in 1..Len(s100) |-> Concat([j \in 1..Len(s100) |->
                [k \in 1..Len(s100) |-> prefix \o s100[i] \o s100[j] \o s100[k]]])])
         ELSE << >>)

\* digits_prefix
DigitsPrefixCands(sw) ==
    Concat([num_digits \in 1..4 |->
        Concat([d \in 1..Pow(Radix, num_digits) |->
            PrefixCands(sw, num_digits, d - 1)])])

separators == << << >>, << "-" >>, << "_" >>, << "." >>, << "!" >>, << "@" >> >>

\* special_characters: the candidates of one separator
SeparatorCands(sw, sep) ==
    LET s300 == Take(sw, 300)
        s100 == Take(sw, 100)
    IN  IF sep = << >> THEN << >>
        ELSE Concat([i \in 1..Len(s300) |->
                [j \in 1..Len(s300) |-> s300[i] \o sep \o s300[j]]])
             \o
             Concat([i \in 1..Len(s100) |-> Concat([j \in 1..Len(s100) |->
                [k \in 1..Len(s100) |->
                    s100[i] \o sep \o s100[j] \o sep \o s100[k]]])])

\* special_characters
SpecialCharsCands(sw) ==
    Concat([n \in 1..Len(separators) |-> SeparatorCands(sw, separators[n])])

\* The three case patterns of capitalization_patterns
CasePattern(p, w) ==
    CASE p = 1 -> Capitalize(w) [] p = 2 -> Upper(w) [] OTHER -> w

\* capitalization_patterns
CapitalizationCands(sw) ==
    LET s300 == Take(sw, 300)
        s150 == Take(sw, 150)
    IN  Concat([i \in 1..Len(s300) |-> Concat([j \in 1..Len(s300) |->
          Concat([p1 \in 1..3 |->
            [p2 \in 1..3 |->
                CasePattern(p1, s300[i]) \o CasePattern(p2, s300[j])]])])])
        \o
        Concat([i \in 1..Len(s150) |-> Concat([j \in 1..Len(s150) |->
            [k \in 1..Len(s150) |->
                Capitalize(s150[i]) \o s150[j] \o s150[k]]])])

\* reverse_words
ReverseCands(sw) ==
    LET s200 == Take(sw, 200)
    IN  [i \in 1..Len(sw) |-> Reverse(sw[i])]
        \o
        Concat([i \in 1..Len(s200) |-> Concat([j \in 1..Len(s200) |->
            << Reverse(s200[i]) \o s200[j], s200[i] \o Reverse(s200[j]) >>])])

\* partial_words: the list appended to before it is de-duplicated
PartialsList(sw) ==
    Concat([i \in 1..Len(sw) |->
        (IF Len(sw[i]) >= 3 THEN << SubSeq(sw[i], 1, 3) >> ELSE << >>)
        \o (IF Len(sw[i]) >= 4 THEN << SubSeq(sw[i], 1, 4) >> ELSE << >>)])

\* partial_words, given the list list(set(partials))[:500]
PartialCands(partials) ==
    LET p150 == Take(partials, 150)
    IN  Concat([i \in 1..Len(p150) |-> Concat([j \in 1..Len(p150) |->
            [k \in 1..Len(p150) |-> p150[i] \o p150[j] \o p150[k]]])])

\* The separators of mega_random_creative
random_separators ==
    << << >>, << "1" >>, << "2" >>, << "1", "0" >>, << "1", "2" >>, << "-" >>,
       << "_" >> >>

\* random.choices(pool, k=k): every k-tuple over the pool
Choices(pool, k) == [1..k -> Range(pool)]

\* sep.join(words)
RECURSIVE Join(_, _)
Join(sep, ws) ==
    IF ws = << >> THEN << >>
    ELSE IF Len(ws) = 1 THEN ws[1]
    ELSE ws[1] \o sep \o Join(sep, Tail(ws))

\* The candidates one iteration of mega_random_creative may draw
\* (random.randint(0, 999) and random.randint(0, 99) are 0..Radix^3 - 1 and
\* 0..Radix^2 - 1)
RandomCreativeCands(sw) ==
    LET d3 == 0..(Pow(Radix, 3) - 1)
        d2 == 0..(Pow(Radix, 2) - 1)
        part(w) == IF Len(w) >= 3 THEN {SubSeq(w, 1, 3), Take(w, 4)} ELSE {w}
    IN  {Concat(ws) : ws \in Choices(sw, 4)}
        \cup {Concat(ws) \o DigitStr(d) : ws \in Choices(sw, 3), d \in d3}
        \cup {ws[1] \o DigitStr(d) \o ws[2] \o ws[3] \o ws[4] :
                 ws \in Choices(sw, 4), d \in d2}
        \cup {DigitStr(d) \o Concat(ws) : ws \in Choices(sw, 3), d \in d3}
        \cup {Join(sep, ws) : ws \in Choices(sw, 2) \cup Choices(sw, 3),
                              sep \in Range(random_separators)}
        \cup {Capitalize(ws[1]) \o Concat(Tail(ws)) :
                 ws \in Choices(sw, 2) \cup Choices(sw, 3) \cup Choices(sw, 4)}
        \cup UNION {{Concat([i \in 1..Len(ws) |->
                                IF up[i] THEN Upper(ws[i]) ELSE ws[i]]) :
                         up \in [1..Len(ws) -> BOOLEAN]} :
                    ws \in Choices(sw, 2) \cup Choices(sw, 3)}
        \cup UNION {{Concat(ps) :
                         ps \in {q \in [1..4 -> UNION {part(ws[i]) : i \in 1..4}] :
                                     \A i \in 1..4 : q[i] \in part(ws[i])}} :
                    ws \in Choices(sw, 4)}

(***************************************************************************)
(* The attacks of wordonly.py (SmartWordCracker)                           *)
(***************************************************************************)

WORDS_FOR_2_COMBO == 6000

WORDS_FOR_3_COMBO == 3000

WORDS_FOR_4_COMBO == 1000

TRY_4_WORD_SMART == TRUE

TRY_4_WORD_NO_REPEATS == TRUE

\* itertools.product(pool, repeat=k): the k-tuples over pool, the last
\* position changing fastest
RECURSIVE Product(_, _)
Product(pool, k) ==
    IF k = 0 THEN << << >> >>
    ELSE LET rest == Product(pool, k - 1)
         IN  Concat([i \in 1..Len(pool) |->
                        [j \in 1..Len(rest) |-> << pool[i] >> \o rest[j]]])

\* ''.join(word_combo) for each word_combo of a sequence of tuples of words
Joined(combos) == [n \in 1..Len(combos) |-> Concat(combos[n])]

\* single_word_attack: `for w in words`
SingleWordCands(ws) == ws

\* two_word_attack
TwoWordCands(ws) ==
    Joined(Product(Take(SortedByLen(ws), WORDS_FOR_2_COMBO), 2))

\* three_word_attack
ThreeWordCands(ws) ==
    Joined(Product(Take(SortedByLen(ws), WORDS_FOR_3_COMBO), 3))

\* four_word_attack_smart: working_words
FourWordPool(ws) == Take(SortedByLen(ws), WORDS_FOR_4_COMBO)

\* A variant of FourWordNoRepeatCands with no check of the size of the pool,
\* that skips a word only when it repeats the word just before it
FourWordNoRepeatCands_Adjacent(working_words) ==
    LET differs(c) == c[2] # c[1] /\ c[3] # c[2] /\ c[4] # c[3]
    IN  Joined(SelectSeq(Product(working_words, 4), differs))

\* A variant of FourWordNoRepeatCands whose loops skip no word
FourWordNoRepeatCands_All(working_words) ==
    IF TRY_4_WORD_NO_REPEATS /\ Len(working_words) >= 4
    THEN Joined(Product(working_words, 4))
    ELSE << >>

\* four_word_attack_smart, strategy 1: four nested loops over working_words,
\* each with `continue` on a word an outer loop holds, run when the pool has
\* four words or more
FourWordNoRepeatCands(working_words) ==
    LET differs(c) == /\ c[2] # c[1]
                      /\ c[3] # c[1] /\ c[3] # c[2]
                      /\ c[4] # c[1] /\ c[4] # c[2] /\ c[4] # c[3]
    IN  IF TRY_4_WORD_NO_REPEATS /\ Len(working_words) >= 4
        THEN Joined(SelectSeq(Product(working_words, 4), differs))
        ELSE << >>

\* four_word_attack_smart, strategy 2: what one iteration may draw
\* (random.choices(working_words, k=4))
FourWordSampleCands(working_words) ==
    {Concat(ws) : ws \in Choices(working_words, 4)}

\* four_word_attack_smart, strategy 3: product(very_short, repeat=4) when
\* very_short has four words or more and fewer than 10000000 combinations
FourWordShortCands(working_words) ==
    LET short(w) == Len(w) <= 4
        very_short == SelectSeq(working_words, short)
    IN  IF Len(very_short) >= 4 /\ Pow(Len(very_short), 4) < 10000000
        THEN Joined(Product(very_short, 4))
        ELSE << >>

\* The number of attacks of wordonly's main
NumAttacks == 4

\* The attack of four_word_attack_smart
FourWordAttack == 4

\* The part of four_word_attack_smart that samples
SamplingPart == 2

\* The candidates part ph of the attack at index i of wordonly's main tests, in
\* order (none to enumerate for the sampling part)
AttackCands(i, ph, ws) ==
    CASE i = 1 -> SingleWordCands(ws)
      [] i = 2 -> TwoWordCands(ws)
      [] i = 3 -> ThreeWordCands(ws)
      [] i = FourWordAttack /\ ph = 1 -> FourWordNoRepeatCands(FourWordPool(ws))
      [] i = FourWordAttack /\ ph = 3 -> FourWordShortCands(FourWordPool(ws))
      [] OTHER -> << >>

(***************************************************************************)
(* The match engine                                                        *)
(***************************************************************************)

\* A variant of test whose membership check reads the TargetSet
\* (`if h in self.hash_to_ids`) in place of remaining_hashes
test_AnyTarget(e, h2i, candidate) ==
    LET h == sha1_hex(candidate)
    IN  IF h \in DOMAIN h2i
        THEN [found            |-> DictPut(e.found, h, candidate),
              remaining_hashes |-> e.remaining_hashes \ {h},
              attempts         |-> e.attempts + 1,
              printed          |-> h2i[h],
              result           |-> (e.remaining_hashes \ {h}) = {}]
        ELSE [found            |-> e.found,
              remaining_hashes |-> e.remaining_hashes,
              attempts         |-> e.attempts + 1,
              printed          |-> << >>,
              result           |-> FALSE]

\* A variant of test that empties remaining_hashes on a hit
\* (`self.remaining_hashes.clear()` in place of `.remove(h)`)
test_ClearsRemaining(e, h2i, candidate) ==
    LET h == sha1_hex(candidate)
    IN  IF h \in e.remaining_hashes
        THEN [found            |-> DictPut(e.found, h, candidate),
              remaining_hashes |-> {},
              attempts         |-> e.attempts + 1,
              printed          |-> h2i[h],
              result           |-> TRUE]
        ELSE [found            |-> e.found,
              remaining_hashes |-> e.remaining_hashes,
              attempts         |-> e.attempts + 1,
              printed          |-> << >>,
              result           |-> FALSE]

\* A variant of test that returns True on every hit
test_TrueOnHit(e, h2i, candidate) ==
    LET h == sha1_hex(candidate)
    IN  IF h \in e.remaining_hashes
        THEN [found            |-> DictPut(e.found, h, candidate),
              remaining_hashes |-> e.remaining_hashes \ {h},
              attempts         |-> e.attempts + 1,
              printed          |-> h2i[h],
              result           |-> TRUE]
        ELSE [found            |-> e.found,
              remaining_hashes |-> e.remaining_hashes,
              attempts         |-> e.attempts + 1,
              printed          |-> << >>,
              result           |-> FALSE]

\* CreativeCracker.test (the same code as SmartWordCracker.test and
\* PatternAwareCracker.test) on the engine e = [found, remaining_hashes,
\* attempts] with TargetSet h2i: the engine after the call, the identifiers
\* printed as cracked, and the value returned.
test(e, h2i, candidate) ==
    LET h == sha1_hex(candidate)
    IN  IF h \in e.remaining_hashes
        THEN [found            |-> DictPut(e.found, h, candidate),
              remaining_hashes |-> e.remaining_hashes \ {h},
              attempts         |-> e.attempts + 1,
              printed          |-> h2i[h],
              result           |-> (e.remaining_hashes \ {h}) = {}]
        ELSE [found            |-> e.found,
              remaining_hashes |-> e.remaining_hashes,
              attempts         |-> e.attempts + 1,
              printed          |-> << >>,
              result           |-> FALSE]

(***************************************************************************)
(* The inputs of a run                                                     *)
(***************************************************************************)

\* The longest digest list and cache file of the model, in lines
MaxPwLines == 3
MaxCacheLines == 2

\* The lines a digest list is made of: two identifiers sharing digest a0, an
\* identifier listed with two digests, and a digest (ff) no candidate has.
PwLineSet ==
    { << "1", " ", "a", "0", "\n" >>, << "2", " ", "a", "0", "\n" >>,
      << "1", " ", "a", "1", "\n" >>, << "2", " ", "f", "f", "\n" >> }

\* The lines a cache file is made of
CacheLineSet ==
    { << "a", "0", " ", "x", "\n" >>, << "a", "0", " ", "y", "\n" >>,
      << "f", "f", " ", "x", "\n" >> }

SeqsUpTo(S, n) == UNION {[1..k -> S] : k \in 0..n}

PwFiles == {Concat(ls) : ls \in SeqsUpTo(PwLineSet, MaxPwLines)}

CacheFiles ==
    {NoFile} \cup {FileOf(Concat(ls)) : ls \in SeqsUpTo(CacheLineSet, MaxCacheLines)}

\* The dictionary file: one term, listed twice in different case
DictFile == << "a", "b", "c", "\n", "A", "B", "C", " ", "\n" >>

(***************************************************************************)
(* The state of a run of main (cracker.py, wordonly.py)                     *)
(***************************************************************************)

VARIABLES
    program,           \* which script runs: "cracker" or "wordonly"
    pwfile,            \* passwords.txt
    dictfile,          \* dictionary.txt
    cachefile,         \* cracked_cache.txt
    pc,                \* where main is
    run,               \* the number of this run of the program
    id_to_hash,        \* main's locals
    id_order,          \* the keys of id_to_hash in the order of the dict
    hash_to_ids,
    words,
    cache,
    pending,           \* load_cache: the lines not read yet
    found,             \* FoundMap (main's found, the cracker's self.found)
    built,             \* whether the cracker was constructed
    remaining_hashes,  \* the cracker's fields
    total_hashes,
    attempts,
    short_words,
    strat,             \* the index of the strategy in main's list
    phase,             \* the part of the running strategy (wordonly's 4-word
                       \* attack has three: no repeats, sampling, shortest)
    pos,               \* the candidates the running strategy has tested
    todo,              \* the candidates the running strategy has yet to test
    started,           \* the strategies main has started, in order
    digest,            \* test's h: the digest of the candidate last tested
    printed,           \* the identifiers the last test call printed
    result,            \* the value the last test call returned
    updated_cache,     \* main's merged cache
    towrite,           \* save_cache: the items not written yet
    saves,             \* how often this run completed save_cache
    cachefile0,        \* the cache file as this run found it
    prev,              \* the FoundMap and cache file the previous run left
    summary,           \* the lines of main's final results, one per identifier
    raised,            \* the exception that ended the run, if one did
    remaining,         \* analyze_cracked_passwords: the text not parsed yet
    words_found        \* analyze_cracked_passwords: the terms found in pw

vars ==
    << program, pwfile, dictfile, cachefile, pc, run, id_to_hash, id_order,
       hash_to_ids, words, cache, pending, found, built, remaining_hashes, total_hashes, attempts,
       short_words, strat, phase, pos, todo, started, digest, printed, result,
       updated_cache, towrite, saves, cachefile0, prev, summary, raised,
       remaining, words_found >>

parsing == << remaining, words_found >>

files == << program, pwfile, dictfile, cachefile >>

\* The memory of a process that has not started
Fresh ==
    /\ id_to_hash' = EmptyDict
    /\ id_order' = << >>
    /\ hash_to_ids' = EmptyDict
    /\ words' = << >>
    /\ cache' = EmptyDict
    /\ pending' = << >>
    /\ found' = EmptyDict
    /\ built' = FALSE
    /\ remaining_hashes' = {}
    /\ total_hashes' = 0
    /\ attempts' = 0
    /\ short_words' = << >>
    /\ strat' = 0
    /\ phase' = 0
    /\ pos' = 0
    /\ todo' = << >>
    /\ started' = << >>
    /\ digest' = << >>
    /\ printed' = << >>
    /\ result' = FALSE
    /\ updated_cache' = EmptyDict
    /\ towrite' = << >>
    /\ saves' = 0
    /\ summary' = << >>
    /\ raised' = "none"
    /\ remaining' = << >>
    /\ words_found' = << >>

NoPrev == [run |-> 0, found |-> EmptyDict, cache |-> EmptyDict, file |-> NoFile]

\* The process starts main: nothing is loaded, the first run
Boot ==
    /\ pc = "start"
    /\ run = 1
    /\ id_to_hash = EmptyDict
    /\ id_order = << >>
    /\ hash_to_ids = EmptyDict
    /\ words = << >>
    /\ cache = EmptyDict
    /\ pending = << >>
    /\ found = EmptyDict
    /\ built = FALSE
    /\ remaining_hashes = {}
    /\ total_hashes = 0
    /\ attempts = 0
    /\ short_words = << >>
    /\ strat = 0
    /\ phase = 0
    /\ pos = 0
    /\ todo = << >>
    /\ started = << >>
    /\ digest = << >>
    /\ printed = << >>
    /\ result = FALSE
    /\ updated_cache = EmptyDict
    /\ towrite = << >>
    /\ saves = 0
    /\ cachefile0 = cachefile
    /\ prev = NoPrev
    /\ summary = << >>
    /\ raised = "none"
    /\ remaining = << >>
    /\ words_found = << >>

Init ==
    /\ program = "cracker"
    /\ pwfile \in PwFiles
    /\ dictfile = DictFile
    /\ cachefile \in CacheFiles
    /\ Boot

engine == << found, built, remaining_hashes, total_hashes, attempts, short_words >>

progress == << strat, phase, pos, todo, started, digest, printed, result >>

saving == << updated_cache, towrite, saves >>

ending == << summary, raised >>

\* main: load_hashes, load_dictionary, and load_cache up to its open()
LoadData ==
    /\ pc = "start"
    /\ LET t == load_hashes(pwfile)
       IN  /\ id_to_hash' = t.id_to_hash
           /\ id_order' = t.id_order
           /\ hash_to_ids' = t.hash_to_ids
    /\ words' = load_dictionary(dictfile)
    /\ cache' = EmptyDict
    /\ pending' = IF cachefile.exists THEN FileLines(cachefile.text) ELSE << >>
    /\ pc' = "load_cache"
    /\ UNCHANGED << files, run, engine, progress, saving, cachefile0, prev, ending, parsing >>

\* load_cache: one iteration of `for line in f`
LoadCacheLine ==
    /\ pc = "load_cache"
    /\ pending # << >>
    /\ cache' = CacheLineStep(cache, Head(pending))
    /\ pending' = Tail(pending)
    /\ UNCHANGED << files, pc, run, id_to_hash, id_order, hash_to_ids, words, engine,
                    progress, saving, cachefile0, prev, ending, parsing >>

\* A variant of CachedFound that takes every entry of the cache
CachedFound_WholeCache(i2h, c) == c

\* main's "Check cache" loop: found[h] = cache[h] for every h of id_to_hash
CachedFound(i2h, c) ==
    LET hs == {i2h[u] : u \in DOMAIN i2h} \cap DOMAIN c
    IN  [h \in hs |-> c[h]]

\* main: the cache check, and the construction of the cracker unless every
\* digest is found
CheckCache ==
    /\ pc = "load_cache"
    /\ pending = << >>
    /\ LET f == CachedFound(id_to_hash, cache)
       IN  /\ found' = f
           /\ IF Cardinality(DOMAIN f) = Cardinality(DOMAIN hash_to_ids)
              THEN /\ pc' = "merge"
                   /\ UNCHANGED << built, remaining_hashes, total_hashes,
                                   attempts, short_words, strat >>
              ELSE /\ pc' = "loop"
                   /\ built' = TRUE
                   /\ remaining_hashes' = DOMAIN hash_to_ids \ DOMAIN f
                   /\ total_hashes' = Cardinality(DOMAIN hash_to_ids)
                   /\ attempts' = 0
                   /\ short_words' = IF program = "cracker" THEN ShortWords(words) ELSE << >>
                   /\ strat' = 1
    /\ UNCHANGED << files, run, id_to_hash, id_order, hash_to_ids, words, cache, pending,
                    phase, pos, todo, started, digest, printed, result, saving,
                    cachefile0, prev, ending, parsing >>

\* The length of main's list of strategies
NumStrategies == 7

\* The strategy that samples at random (mega_random_creative)
RandomStrategy == 7

\* The orderings list(set(partials)) may have: the iteration order of a set of
\* strings is not fixed by the program
Orderings(S) ==
    {q \in [1..Cardinality(S) -> S] : \A i, j \in 1..Cardinality(S) : q[i] = q[j] => i = j}

\* The candidate sequences the strategy at index i of main's list may test,
\* in the order of its loops: one sequence for an exhaustive strategy that
\* reads only the pool, one per ordering of the set for partial_words, and
\* none to enumerate for the sampling strategy.
StrategyRuns(i, sw) ==
    CASE i = 1 -> {IF TRY_DIGITS_BETWEEN_WORDS THEN DigitsBetweenCands(sw) ELSE << >>}
      [] i = 2 -> {IF TRY_DIGITS_PREFIX THEN DigitsPrefixCands(sw) ELSE << >>}
      [] i = 3 -> {IF TRY_SPECIAL_CHARS THEN SpecialCharsCands(sw) ELSE << >>}
      [] i = 4 -> {IF TRY_CAPITALIZATION THEN CapitalizationCands(sw) ELSE << >>}
      [] i = 5 -> {IF TRY_REVERSE_WORDS THEN ReverseCands(sw) ELSE << >>}
      [] i = 6 -> IF TRY_PARTIAL_WORDS
                  THEN {PartialCands(Take(q, 500)) :
                            q \in Orderings(Range(PartialsList(sw)))}
                  ELSE {<< >>}
      [] OTHER -> {<< >>}

\* The length of the list of strategies of the program that runs
ListLen == IF program = "wordonly" THEN NumAttacks ELSE NumStrategies

\* A variant of LoopRuns that leaves the last strategy of the list out
LoopRuns_ShortList(i, rem) == i < ListLen /\ rem # {}

\* main's loop: `if cracker.remaining_hashes:` before each strategy
LoopRuns(i, rem) == i <= ListLen /\ rem # {}

\* The parts the strategy at index i has
Parts(i) == IF program = "wordonly" /\ i = FourWordAttack THEN 3 ELSE 1

\* Whether part ph of the strategy at index i is a loop of random draws
Sampling(i, ph) ==
    IF program = "wordonly"
    THEN i = FourWordAttack /\ ph = SamplingPart
    ELSE i = RandomStrategy

\* The iterations of the sampling loop
Samples == IF program = "wordonly" /\ ~TRY_4_WORD_SMART THEN 0 ELSE MaxSamples

\* The pool the sampling loop draws from
SamplePool == IF program = "wordonly" THEN FourWordPool(words) ELSE short_words

\* What one iteration of the sampling loop may draw
SampleCands ==
    IF program = "wordonly"
    THEN FourWordSampleCands(SamplePool)
    ELSE RandomCreativeCands(SamplePool)

\* The candidate sequences part ph of the strategy at index i may test
PartRuns(i, ph) ==
    IF program = "wordonly"
    THEN {AttackCands(i, ph, words)}
    ELSE StrategyRuns(i, short_words)

\* The loops of the running part are through
PartDone ==
    IF Sampling(strat, phase) THEN pos = Samples ELSE todo = << >>

\* A variant of ReturnsOnTrue: the strategy ignores what test returns
ReturnsNever(r) == FALSE

\* A strategy's `if self.test(...): return True`
ReturnsOnTrue(r) == r

\* main's loop starts the next strategy
StartStrategy ==
    /\ pc = "loop"
    /\ LoopRuns(strat, remaining_hashes)
    /\ pc' = "strategy"
    /\ pos' = 0
    /\ phase' = 1
    /\ started' = Append(started, strat)
    /\ \E cs \in PartRuns(strat, 1) : todo' = cs
    /\ UNCHANGED << files, run, id_to_hash, id_order, hash_to_ids, words, cache, pending,
                    engine, strat, digest, printed, result, saving, cachefile0,
                    prev, ending, parsing >>

\* main's loop ends: the list is through, or `break`
LeaveLoop ==
    /\ pc = "loop"
    /\ ~LoopRuns(strat, remaining_hashes)
    /\ pc' = "merge"
    /\ UNCHANGED << files, run, id_to_hash, id_order, hash_to_ids, words, cache, pending,
                    engine, progress, saving, cachefile0, prev, ending, parsing >>

\* What a test call of the running strategy does to the state. When the
\* strategy returns on True, the candidates it had yet to test stay untested.
TestCall(candidate) ==
    LET r == test([found |-> found, remaining_hashes |-> remaining_hashes,
                   attempts |-> attempts], hash_to_ids, candidate)
    IN  /\ found' = r.found
        /\ remaining_hashes' = r.remaining_hashes
        /\ attempts' = r.attempts
        /\ printed' = r.printed
        /\ result' = r.result
        /\ digest' = sha1_hex(candidate)
        /\ todo' = IF todo = << >> THEN << >> ELSE Tail(todo)
        /\ IF ReturnsOnTrue(r.result)
           THEN pc' = "loop" /\ strat' = strat + 1 /\ pos' = pos
           ELSE pc' = "strategy" /\ strat' = strat /\ pos' = pos + 1
        /\ UNCHANGED << files, run, id_to_hash, id_order, hash_to_ids, words, cache,
                        pending, built, total_hashes, short_words, phase,
                        started, saving, cachefile0, prev, ending, parsing >>

\* An exhaustive strategy tests its next candidate
TestNext ==
    /\ pc = "strategy"
    /\ ~Sampling(strat, phase)
    /\ todo # << >>
    /\ TestCall(Head(todo))

\* mega_random_creative, and strategy 2 of four_word_attack_smart: one
\* iteration of the sampling loop. random.choices on an empty pool raises
\* IndexError, which nothing catches: the process ends there.
Sample ==
    /\ pc = "strategy"
    /\ Sampling(strat, phase)
    /\ pos < Samples
    /\ IF SamplePool = << >>
       THEN /\ pc' = "raised"
            /\ raised' = "IndexError"
            /\ UNCHANGED << files, run, id_to_hash, id_order, hash_to_ids, words,
                            cache, pending, engine, progress, saving,
                            cachefile0, prev, summary, parsing >>
       ELSE \E candidate \in SampleCands : TestCall(candidate)

\* four_word_attack_smart goes on to its next strategy
NextPart ==
    /\ pc = "strategy"
    /\ PartDone
    /\ phase < Parts(strat)
    /\ phase' = phase + 1
    /\ pos' = 0
    /\ \E cs \in PartRuns(strat, phase + 1) : todo' = cs
    /\ UNCHANGED << files, pc, run, id_to_hash, id_order, hash_to_ids, words, cache,
                    pending, engine, strat, started, digest, printed, result,
                    saving, cachefile0, prev, ending, parsing >>

\* The strategy's loops are through: it returns False
StrategyReturn ==
    /\ pc = "strategy"
    /\ PartDone
    /\ phase = Parts(strat)
    /\ pc' = "loop"
    /\ strat' = strat + 1
    /\ UNCHANGED << files, run, id_to_hash, id_order, hash_to_ids, words, cache, pending,
                    engine, phase, pos, todo, started, digest, printed, result, saving,
                    cachefile0, prev, ending, parsing >>

\* A variant of MergedCache that saves the FoundMap alone
MergedCache_FoundOnly(c, f) == f

\* main's "Update cache": updated_cache = dict(cache); updated_cache.update(found)
MergedCache(c, f) == DictUpdate(c, f)

Merge ==
    /\ pc = "merge"
    /\ updated_cache' = MergedCache(cache, found)
    /\ pc' = "save_open"
    /\ UNCHANGED << files, run, id_to_hash, id_order, hash_to_ids, words, cache, pending,
                    engine, progress, towrite, saves, cachefile0, prev, ending, parsing >>

\* save_cache: open(cache_file, "w") truncates the file
SaveOpen ==
    /\ pc = "save_open"
    /\ cachefile' = FileOf(<< >>)
    /\ towrite' = SortedItems(updated_cache)
    /\ pc' = "save_write"
    /\ UNCHANGED << program, pwfile, dictfile, run, id_to_hash, id_order, hash_to_ids, words, cache,
                    pending, engine, progress, updated_cache, saves, cachefile0,
                    prev, ending, parsing >>

\* save_cache: one f.write
SaveWrite ==
    /\ pc = "save_write"
    /\ towrite # << >>
    /\ cachefile' = FileOf(cachefile.text \o CacheRecord(towrite[1][1], towrite[1][2]))
    /\ towrite' = Tail(towrite)
    /\ UNCHANGED << program, pwfile, dictfile, pc, run, id_to_hash, id_order, hash_to_ids, words,
                    cache, pending, engine, progress, updated_cache, saves,
                    cachefile0, prev, ending, parsing >>

\* save_cache returns
SaveClose ==
    /\ pc = "save_write"
    /\ towrite = << >>
    /\ saves' = saves + 1
    /\ pc' = "summary"
    /\ UNCHANGED << files, run, id_to_hash, id_order, hash_to_ids, words, cache, pending,
                    engine, progress, updated_cache, towrite, cachefile0, prev, ending, parsing >>

\* x.isdigit()
IsDigitStr(x) == x # << >> /\ \A i \in 1..Len(x) : IsDigit(x[i])

\* int(x) of a string of digits
RECURSIVE IntOf(_)
IntOf(x) ==
    IF x = << >> THEN 0
    ELSE 10 * IntOf(SubSeq(x, 1, Len(x) - 1)) + (Ord(x[Len(x)]) - Ord("0"))

\* The summary's sort key is int(x) for a string of digits and x otherwise.
\* sorted() compares the keys with <; an int and a str do not compare
\* (TypeError), and a list of two keys or more of both kinds has such a pair
\* to compare.
SortRaises(ids) ==
    \E i, j \in 1..Len(ids) : IsDigitStr(ids[i]) /\ ~IsDigitStr(ids[j])

\* key(x) < key(y) for two keys of one kind
KeyLess(x, y) ==
    IF IsDigitStr(x) THEN IntOf(x) < IntOf(y) ELSE StrLess(x, y)

\* sorted(ids, key=...): stable, ascending by key
RECURSIVE InsertByKey(_, _)
InsertByKey(sorted, u) ==
    IF sorted = << >> THEN << u >>
    ELSE IF ~KeyLess(u, sorted[Len(sorted)]) THEN Append(sorted, u)
    ELSE Append(InsertByKey(SubSeq(sorted, 1, Len(sorted) - 1), u),
                sorted[Len(sorted)])

RECURSIVE SortedByKey(_)
SortedByKey(ids) ==
    IF ids = << >> THEN << >>
    ELSE InsertByKey(SortedByKey(SubSeq(ids, 1, Len(ids) - 1)), ids[Len(ids)])

\* The lines of the final results: "User uid: plaintext" when the digest of
\* the identifier is in found, "User uid: <NOT CRACKED>" otherwise
SummaryLines(ids, i2h, f) ==
    [n \in 1..Len(ids) |->
        IF i2h[ids[n]] \in DOMAIN f
        THEN [uid |-> ids[n], cracked |-> TRUE, pw |-> f[i2h[ids[n]]]]
        ELSE [uid |-> ids[n], cracked |-> FALSE, pw |-> << >>]]

\* main's final results: the identifiers sorted by key, one line each. The
\* TypeError of sorted() is not caught: the process ends with no line printed.
Summary ==
    /\ pc = "summary"
    /\ IF SortRaises(id_order)
       THEN /\ pc' = "raised"
            /\ raised' = "TypeError"
            /\ summary' = << >>
       ELSE /\ pc' = "done"
            /\ raised' = raised
            /\ summary' = SummaryLines(SortedByKey(id_order), id_to_hash, found)
    /\ UNCHANGED << files, run, id_to_hash, id_order, hash_to_ids, words, cache,
                    pending, engine, progress, saving, cachefile0, prev, parsing >>

\* The operator halts the process (an interrupt): its memory is gone, the
\* files stay as they are
Halt ==
    /\ pc \notin {"done", "raised", "halted"}
    /\ pc' = "halted"
    /\ Fresh
    /\ UNCHANGED << files, run, cachefile0, prev >>

\* The number of runs of the program in succession
MaxRuns == 2

\* The program is run again on the files the last run left
Rerun ==
    /\ pc = "done"
    /\ run < MaxRuns
    /\ run' = run + 1
    /\ prev' = [run |-> run, found |-> found, cache |-> updated_cache,
                file |-> cachefile]
    /\ cachefile0' = cachefile
    /\ pc' = "start"
    /\ Fresh
    /\ UNCHANGED files

Next ==
    \/ LoadData
    \/ LoadCacheLine
    \/ CheckCache
    \/ StartStrategy
    \/ LeaveLoop
    \/ TestNext
    \/ Sample
    \/ StrategyReturn
    \/ Merge
    \/ SaveOpen
    \/ SaveWrite
    \/ SaveClose
    \/ Summary
    \/ Halt

Spec == Init /\ [][Next]_vars

(***************************************************************************)
(* Two runs in succession on a cache that covers the TargetSet             *)
(***************************************************************************)

\* The cache file holds a record for every key of hash_to_ids
AllCached(password_file, cache_file) ==
    DOMAIN load_hashes(password_file).hash_to_ids \subseteq DOMAIN load_cache(cache_file)

InitCached ==
    /\ Init
    /\ AllCached(pwfile, cachefile)

NextTwice ==
    \/ Next
    \/ Rerun

SpecTwice == InitCached /\ [][NextTwice]_vars

(***************************************************************************)
(* Saving and reloading the cache: two runs with no digest to resolve, on  *)
(* cache files whose plaintexts hold spaces or are empty                   *)
(***************************************************************************)

\* The lines of these cache files: plaintexts "x", "x y", "", " x" and "y ",
\* a digest in upper case, and a line with no space
RoundTripLineSet ==
    { << "a", "0", " ", "x", "\n" >>,
      << "a", "0", " ", "x", " ", "y", "\n" >>,
      << "a", "1", " ", "\n" >>,
      << "A", "1", " ", " ", "x", "\n" >>,
      << "f", "f", " ", "y", " ", "\n" >>,
      << "f", "f", "\n" >> }

RoundTripFiles ==
    {FileOf(Concat(ls)) : ls \in SeqsUpTo(RoundTripLineSet, MaxCacheLines + 1)}

InitRoundTrip ==
    /\ program = "cracker"
    /\ pwfile = << >>
    /\ dictfile = DictFile
    /\ cachefile \in RoundTripFiles
    /\ Boot

NextRoundTrip ==
    \/ LoadData
    \/ LoadCacheLine
    \/ CheckCache
    \/ Merge
    \/ SaveOpen
    \/ SaveWrite
    \/ SaveClose
    \/ Summary
    \/ Rerun

SpecRoundTrip == InitRoundTrip /\ [][NextRoundTrip]_vars

(***************************************************************************)
(* Properties of the match engine and of the orchestration (Spec)          *)
(***************************************************************************)

\* The steps that stay within one live run
SameRun == run' = run /\ pc' # "halted"

\* C1 (at-most-once credit): within a run, a digest that has a plaintext in
\* found, seeded from the cache or credited by test, keeps that plaintext at
\* every later step, whatever candidate whatever strategy tests.
C1_AtMostOnceCredit ==
    [][SameRun => \A d \in DOMAIN found :
                      d \in DOMAIN found' /\ found'[d] = found[d]]_vars

\* A test call was given a candidate whose digest test itself had credited
\* earlier in the run: the call printed nothing and the digest is in found
\* without having been in the cache.
C1_Witness ==
    /\ built
    /\ attempts >= 2
    /\ printed = << >>
    /\ digest \in DOMAIN found
    /\ digest \notin DOMAIN cache

\* C2: over the test calls of a run remaining_hashes never grows: a step
\* leaves it as it is or removes exactly one digest, so a digest once
\* removed is never back.
C2_RemainingNonIncreasing ==
    [][(built /\ built') =>
           /\ remaining_hashes' \subseteq remaining_hashes
           /\ Cardinality(remaining_hashes \ remaining_hashes') <= 1]_vars

\* A test call removed a digest and left another one unresolved
C2_Witness ==
    /\ built
    /\ printed # << >>
    /\ digest \notin remaining_hashes
    /\ remaining_hashes # {}
    /\ Cardinality(remaining_hashes) < total_hashes

\* C3 (prompt stop): once remaining_hashes is empty no test call happens in
\* the run: the candidates the running strategy had yet to test stay
\* untested, and no strategy is started.
C3_PromptStop ==
    [][(built /\ remaining_hashes = {} /\ SameRun) =>
           /\ attempts' = attempts
           /\ todo' = todo
           /\ started' = started
           /\ pc' # "strategy"]_vars

\* The run left the loop with remaining_hashes emptied by a test call, with
\* candidates of the running strategy untested and strategies not started
C3_Witness ==
    /\ built
    /\ result
    /\ remaining_hashes = {}
    /\ pc = "merge"
    /\ todo # << >>
    /\ Len(started) < NumStrategies

\* C4 (scenario C): when the loaded cache has a plaintext for every key of
\* hash_to_ids, the run goes on to the merge with no cracker built, no
\* strategy started and no candidate tested.
C4_AllCachedNoWork ==
    (/\ pc \notin {"start", "load_cache", "halted"}
     /\ DOMAIN hash_to_ids \subseteq DOMAIN cache)
        => (~built /\ attempts = 0 /\ started = << >>)

(***************************************************************************)
(* Properties of two runs in succession (SpecTwice)                        *)
(***************************************************************************)

\* The loaded cache, restricted to the TargetSet
TargetsCached == [d \in DOMAIN hash_to_ids |-> cache[d]]

\* C5 (idempotence): with a cache that covers the TargetSet, each of two
\* runs in succession ends with found equal to the cache on the TargetSet,
\* and the second run ends with the found and the cache file the first run
\* ended with.
C5_Idempotent ==
    pc = "done" =>
        /\ found = TargetsCached
        /\ run = 2 => (found = prev.found /\ cachefile = prev.file)

(***************************************************************************)
(* Properties of the result cache                                          *)
(***************************************************************************)

\* C6 (first write wins): from the load of the cache through the merge, a
\* digest that has a plaintext in the cache keeps it, in cache and in
\* updated_cache.
C6_FirstWriteWins ==
    [][SameRun => \A d \in DOMAIN cache :
                      /\ d \in DOMAIN cache' => cache'[d] = cache[d]
                      /\ d \in DOMAIN updated_cache' => updated_cache'[d] = cache[d]]_vars

\* The digests of the records of a cache file, in the order of its lines
RecordDigests(text) ==
    LET ls == FileLines(text)
    IN  [i \in 1..Len(ls) |-> SplitFirstSpace(RStripNewline(ls[i]))[1]]

Ascending(ks) == \A i \in 1..(Len(ks) - 1) : StrLess(ks[i], ks[i + 1])

\* C7 (round trip, SpecRoundTrip): the mapping the second run loads is the
\* mapping the first run saved; saving it gives the content of the file
\* again, which the second run's save_cache leaves; the records are in
\* ascending order of digest.
C7_RoundTrip ==
    /\ (run = 2 /\ pc \notin {"start", "load_cache"}) =>
           /\ cache = prev.cache
           /\ save_cache(cache) = prev.file.text
           /\ Ascending(RecordDigests(prev.file.text))
    /\ (run = 2 /\ pc = "done") => cachefile = prev.file

\* The second run ended on a cache of two records or more, with a plaintext
\* that has a space in it and an empty one
C7_Witness ==
    /\ run = 2
    /\ pc = "done"
    /\ Cardinality(DOMAIN cache) >= 2
    /\ \E d \in DOMAIN cache : cache[d] = << >>
    /\ \E d \in DOMAIN cache : " " \in Range(cache[d])

\* C8 (merge is a union): when found and the loaded cache have no digest in
\* common, the file the run saved loads as the union of the two: every entry
\* of the loaded cache, every entry of found, and no other.
C8_MergeIsUnion ==
    (pc \in {"summary", "done"} /\ DOMAIN found \cap DOMAIN cache = {}) =>
        LET reloaded == load_cache(cachefile)
        IN  /\ DOMAIN reloaded = DOMAIN cache \cup DOMAIN found
            /\ \A d \in DOMAIN cache : reloaded[d] = cache[d]
            /\ \A d \in DOMAIN found : reloaded[d] = found[d]

\* The run saved a FoundMap of its own next to a loaded cache that has an
\* entry for a digest outside the TargetSet
C8_Witness ==
    /\ pc = "done"
    /\ found # EmptyDict
    /\ DOMAIN found \cap DOMAIN cache = {}
    /\ DOMAIN cache \ DOMAIN hash_to_ids # {}

\* C9 (durability): when the process is halted, every entry the cache file
\* had when the run found it is still in the file.
C9_HaltKeepsPersisted ==
    pc = "halted" =>
        LET before == load_cache(cachefile0)
            after  == load_cache(cachefile)
        IN  \A d \in DOMAIN before : d \in DOMAIN after /\ after[d] = before[d]

\* C10 (scenario B): a test call on a candidate whose digest is unresolved
\* and shared by two identifiers or more prints each of them exactly once,
\* adds exactly one entry to found and removes exactly one digest from
\* remaining_hashes.
C10_EachNotifiedOnce ==
    [][(/\ built /\ built'
        /\ attempts' = attempts + 1
        /\ digest' \in remaining_hashes
        /\ Cardinality(Range(hash_to_ids[digest'])) >= 2) =>
           /\ Range(printed') = Range(hash_to_ids[digest'])
           /\ \A i, j \in 1..Len(printed') : printed'[i] = printed'[j] => i = j
           /\ digest' \notin DOMAIN found
           /\ DOMAIN found' = DOMAIN found \cup {digest'}
           /\ remaining_hashes' = remaining_hashes \ {digest'}]_vars

(***************************************************************************)
(* Runs on digest lists whose identifiers are numbers and names            *)
(***************************************************************************)

\* The lines of these digest lists: a number and a name with the digest no
\* candidate has, and two numbers whose order as numbers is not their order
\* as strings
SummaryPwLineSet ==
    { << "1", " ", "f", "f", "\n" >>, << "b", " ", "f", "f", "\n" >>,
      << "1", "0", " ", "a", "0", "\n" >>, << "9", " ", "a", "0", "\n" >> }

SummaryPwFiles == {Concat(ls) : ls \in SeqsUpTo(SummaryPwLineSet, MaxPwLines)}

InitSummary ==
    /\ program = "cracker"
    /\ pwfile \in SummaryPwFiles
    /\ dictfile = DictFile
    /\ cachefile \in {NoFile, FileOf(<< "a", "0", " ", "x", "\n" >>)}
    /\ Boot

SpecSummary == InitSummary /\ [][Next]_vars

\* C11 (scenario F): when every strategy of the list ran to its end and the
\* run went on to save the cache, an identifier whose digest no candidate
\* matched and the loaded cache did not have is, when the run has ended,
\* listed as not cracked in the final results, and its digest is neither in
\* found nor in the saved cache file.
C11_UnresolvedListed ==
    \A u \in DOMAIN id_to_hash :
        (/\ pc \in {"done", "raised"}
         /\ built
         /\ Len(started) = NumStrategies
         /\ saves = 1
         /\ id_to_hash[u] \in remaining_hashes
         /\ id_to_hash[u] \notin DOMAIN cache)
            => /\ id_to_hash[u] \notin DOMAIN found
               /\ id_to_hash[u] \notin DOMAIN load_cache(cachefile)
               /\ \E n \in 1..Len(summary) :
                      summary[n].uid = u /\ ~summary[n].cracked

(***************************************************************************)
(* Runs of cracker.py and wordonly.py on dictionaries of no word, of a few *)
(* words, and of enough words for every generator                          *)
(***************************************************************************)

\* The most words a dictionary of these runs has
MaxPool == 4

\* The words of these dictionaries, one letter each
PoolWords == << "a", "b", "c", "d", "f", "x", "y" >>

\* The dictionary file of the first k of these words, one per line
PoolDict(k) == Concat([i \in 1..k |-> << PoolWords[i], "\n" >>])

\* A dictionary of one word of four letters, which has two partial words
LongWordDict == << "a", "b", "c", "d", "\n" >>

PoolPwLineSet ==
    { << "1", " ", "f", "f", "\n" >>, << "2", " ", "a", "0", "\n" >> }

PoolPwFiles == {Concat(ls) : ls \in SeqsUpTo(PoolPwLineSet, 2)}

InitPools ==
    /\ program \in {"cracker", "wordonly"}
    /\ pwfile \in PoolPwFiles
    /\ dictfile \in IF program = "cracker"
                    THEN {PoolDict(0), PoolDict(1), PoolDict(2), LongWordDict}
                    ELSE {PoolDict(k) : k \in 0..MaxPool}
    /\ cachefile \in {NoFile, FileOf(<< "a", "0", " ", "x", "\n" >>)}
    /\ Boot

NextPools ==
    \/ Next
    \/ NextPart

SpecPools == InitPools /\ [][NextPools]_vars

\* C12 (scenario E): on a pool of fewer than 4 words, strategy 1 of
\* four_word_attack_smart (four different words) has no candidate to test:
\* while it is the running part no test call is made and no exception ends
\* the run, and the attack goes on to its next strategy.
C12_SmallPoolNoRepeat ==
    [][(/\ program = "wordonly"
        /\ pc = "strategy"
        /\ strat = FourWordAttack
        /\ phase = 1
        /\ Len(FourWordPool(words)) < 4
        /\ SameRun)
           => /\ todo = << >>
              /\ attempts' = attempts
              /\ raised' = "none"
              /\ pc' = "strategy"
              /\ phase' = 2]_vars

\* A pool of 3 words: the 3 + 9 + 27 candidates of the attacks before are
\* tested, strategy 1 is through with none tested, strategy 2 is next
C12_Witness ==
    /\ program = "wordonly"
    /\ pc = "strategy"
    /\ strat = FourWordAttack
    /\ phase = 2
    /\ pos = 0
    /\ Len(words) = 3
    /\ attempts = 3 + 9 + 27
    /\ raised = "none"

\* C13: a pool too small for a generator is not an error: on a dictionary of
\* fewer than 4 words no exception ends the run, the sampling generators
\* included (mega_random_creative, strategy 2 of four_word_attack_smart).
C13_InfeasiblePoolNoError ==
    Len(load_dictionary(dictfile)) < 4 => raised = "none"

\* C14: the TargetSet load_hashes returns is consistent: an identifier u is
\* listed under a digest d of hash_to_ids exactly when id_to_hash[u] = d, and
\* then exactly once.
C14_TargetSetConsistent ==
    pc # "start" =>
        \A d \in DOMAIN hash_to_ids : \A u \in DOMAIN id_to_hash :
            Cardinality({n \in 1..Len(hash_to_ids[d]) : hash_to_ids[d][n] = u})
                = IF id_to_hash[u] = d THEN 1 ELSE 0

(***************************************************************************)
(* The loaders on files with malformed lines and with repeated terms       *)
(***************************************************************************)

\* The lines of these digest lists: two well-formed, an empty line, a line of
\* one field and a line of three
MalformedPwLineSet ==
    { << "1", " ", "a", "0", "\n" >>, << "2", " ", "f", "f", "\n" >>,
      << "\n" >>, << "2", "\n" >>, << "2", " ", "a", "0", " ", "x", "\n" >> }

\* The lines of these cache files: two well-formed, an empty line and a line
\* with no space
MalformedCacheLineSet ==
    { << "a", "0", " ", "x", "\n" >>, << "a", "1", " ", "y", "\n" >>,
      << "\n" >>, << "f", "f", "\n" >> }

\* The most lines a dictionary of these runs has
MaxDictLines == 3

\* The lines of these dictionaries: terms that differ in case or in the
\* whitespace around them, and an empty line
DictLineSet ==
    { << "a", "b", "c", "\n" >>, << "A", "B", "C", " ", "\n" >>,
      << " ", "b", "\n" >>, << "B", "\n" >>, << "\n" >> }

InitLoad ==
    /\ program = "cracker"
    /\ \/ /\ pwfile \in {Concat(ls) : ls \in SeqsUpTo(MalformedPwLineSet, MaxPwLines)}
          /\ dictfile = DictFile
          /\ cachefile \in {NoFile} \cup
                 {FileOf(Concat(ls)) : ls \in SeqsUpTo(MalformedCacheLineSet, MaxCacheLines)}
       \/ /\ pwfile = << "1", " ", "a", "0", "\n" >>
          /\ dictfile \in {Concat(ls) : ls \in SeqsUpTo(DictLineSet, MaxDictLines)}
          /\ cachefile = NoFile
    /\ Boot

\* main up to the construction of the cracker
NextLoad ==
    \/ LoadData
    \/ LoadCacheLine
    \/ CheckCache

SpecLoad == InitLoad /\ [][NextLoad]_vars

\* The whitespace-separated fields of a line: the positions where a run of
\* characters other than whitespace starts
FieldCount(line) ==
    Cardinality({i \in 1..Len(line) :
                    ~IsSpace(line[i]) /\ (i = 1 \/ IsSpace(line[i - 1]))})

HasTwoFields(line) == FieldCount(line) = 2

HasSpace(line) == \E i \in 1..Len(line) : line[i] = " "

\* C15: malformed records are skipped and affect no other record: the
\* TargetSet is the one of the digest list without its lines of a field count
\* other than 2, the ResultCache the one of the cache file without its lines
\* that hold no space.
C15_MalformedSkipped ==
    /\ pc # "start" =>
           LET t == load_hashes(Concat(SelectSeq(FileLines(pwfile), HasTwoFields)))
           IN  /\ id_to_hash = t.id_to_hash
               /\ id_order = t.id_order
               /\ hash_to_ids = t.hash_to_ids
    /\ (pc \in {"loop", "merge"} /\ cachefile.exists) =>
           cache = load_cache(FileOf(Concat(SelectSeq(FileLines(cachefile.text),
                                                      HasSpace))))

\* A digest list with a malformed line before a well-formed one is loaded,
\* and so is a cache file with a line of no space before a well-formed one
C15_Witness ==
    /\ pc \in {"loop", "merge"}
    /\ \E i, j \in 1..Len(FileLines(pwfile)) :
           /\ i < j
           /\ ~HasTwoFields(FileLines(pwfile)[i])
           /\ HasTwoFields(FileLines(pwfile)[j])
    /\ id_to_hash # EmptyDict
    /\ \E i, j \in 1..Len(FileLines(cachefile.text)) :
           /\ i < j
           /\ ~HasSpace(FileLines(cachefile.text)[i])
           /\ HasSpace(FileLines(cachefile.text)[j])
    /\ cache # EmptyDict

\* The line of the dictionary file where term w occurs first
FirstLine(dict_file, w) ==
    LET lines == FileLines(dict_file)
    IN  CHOOSE i \in 1..Len(lines) :
            /\ Lower(Strip(lines[i])) = w
            /\ \A j \in 1..(i - 1) : Lower(Strip(lines[j])) # w

\* C16: the dictionary load keeps each trimmed, case-folded, non-empty term
\* of the file once, in the order of the first occurrences.
C16_DictionaryLoad ==
    pc # "start" =>
        /\ Range(words) =
               {Lower(Strip(l)) : l \in Range(FileLines(dictfile))} \ {<< >>}
        /\ \A i, j \in 1..Len(words) :
               i < j => FirstLine(dictfile, words[i]) < FirstLine(dictfile, words[j])

\* Three lines of two terms: " b", "abc", then "B" which repeats the first
C16_Witness ==
    /\ pc # "start"
    /\ dictfile = << " ", "b", "\n", "a", "b", "c", "\n", "B", "\n" >>
    /\ words = << << "b" >>, << "a", "b", "c" >> >>

\* C17: the search order of an exhaustive generator is fixed by the inputs
\* of the run: when a part of a strategy that does not sample starts, the
\* candidates it is about to test, in their order, are the only sequence the
\* generator has on this dictionary (partial_words included).
C17_DeterministicOrder ==
    (pc = "strategy" /\ ~Sampling(strat, phase) /\ pos = 0) =>
        \A cs \in PartRuns(strat, phase) : todo = cs

\* The digit strings of width n in ascending order
DigitStrings(n) == Product(SubSeq(DigitChars, 1, Radix), n)

\* prefix + every join of k words of pool, the last word changing fastest
PrefixedJoins(prefix, pool, k) ==
    LET combos == Product(pool, k)
    IN  [n \in 1..Len(combos) |-> prefix \o Concat(combos[n])]

\* The order C18 states: widths 1 to 4 ascending, the digit strings of a
\* width ascending, and for each prefix the 2-word joins over the first 300
\* short words, then for widths 1 and 2 the 3-word joins over the first 100
PrefixOrder(sw) ==
    Concat([n \in 1..4 |->
        Concat([k \in 1..Len(DigitStrings(n)) |->
            PrefixedJoins(DigitStrings(n)[k], Take(sw, 300), 2)
            \o (IF n <= 2
                THEN PrefixedJoins(DigitStrings(n)[k], Take(sw, 100), 3)
                ELSE << >>)])])

\* C18: digits_prefix tests its candidates in this order, each prefix
\* zero-padded to its width and used once: while it runs, the candidates it
\* has yet to test are those of PrefixOrder from the next one on.
C18_PrefixPaddedInOrder ==
    (program = "cracker" /\ pc = "strategy" /\ strat = 2) =>
        todo = SubSeq(PrefixOrder(short_words), pos + 1,
                      Len(PrefixOrder(short_words)))

\* On the pool (a, b), digits_prefix is about to test "0000" + a + a, the
\* first prefix of width 4, after the last candidate of width 3
C18_Witness ==
    /\ program = "cracker"
    /\ pc = "strategy"
    /\ strat = 2
    /\ short_words = << << "a" >>, << "b" >> >>
    /\ todo # << >>
    /\ Head(todo) = << "0", "0", "0", "0", "a", "a" >>
    /\ pos = 4 * (Radix + Radix * Radix + Radix * Radix * Radix)
             + 8 * (Radix + Radix * Radix)

\* C19: digits_between_words covers every digit string of width 1 to K,
\* those with leading zeros included: when it starts, its candidates hold
\* w1 + s + w2 for every pair of short words and every s of width 1 to 3,
\* w1 + s + w2 + w3 over the first 200 for every s of width 1 and 2, and
\* w1 + s + w2 + w3 + w4 over the first 100 for every s of width 1.
C19_AllWidthsCovered ==
    (program = "cracker" /\ pc = "strategy" /\ strat = 1 /\ pos = 0) =>
        /\ \A n \in 1..3 : \A s \in Range(DigitStrings(n)) :
               \A c \in Range(Product(short_words, 2)) :
                   c[1] \o s \o c[2] \in Range(todo)
        /\ \A n \in 1..2 : \A s \in Range(DigitStrings(n)) :
               \A c \in Range(Product(Take(short_words, 200), 3)) :
                   c[1] \o s \o c[2] \o c[3] \in Range(todo)
        /\ \A s \in Range(DigitStrings(1)) :
               \A c \in Range(Product(Take(short_words, 100), 4)) :
                   c[1] \o s \o c[2] \o c[3] \o c[4] \in Range(todo)

\* C20: special_characters tests every 2-word join over the first 300 short
\* words and every 3-word join over the first 100 for every separator of its
\* alphabet, the empty separator included.
C20_EverySeparator ==
    (program = "cracker" /\ pc = "strategy" /\ strat = 3 /\ pos = 0) =>
        \A sep \in Range(separators) :
            /\ \A c \in Range(Product(Take(short_words, 300), 2)) :
                   c[1] \o sep \o c[2] \in Range(todo)
            /\ \A c \in Range(Product(Take(short_words, 100), 3)) :
                   c[1] \o sep \o c[2] \o sep \o c[3] \in Range(todo)

\* A step of a run that is a call of test
TestStep == SameRun /\ attempts' = attempts + 1

\* C21: test returns True exactly at the transition to exhaustion: a call
\* returns True if and only if the digest of its candidate was in
\* remaining_hashes before the call and remaining_hashes is empty after it;
\* once a call has returned True no call of the run returns True again.
C21_TrueAtExhaustion ==
    [][TestStep => /\ result' <=> (/\ digest' \in remaining_hashes
                                   /\ remaining_hashes' = {})
                   /\ result => ~result']_vars

\* Two digests were credited by test in one run: the first hit left the other
\* digest unresolved and returned False, the second returned True
C21_Witness ==
    /\ result
    /\ remaining_hashes = {}
    /\ Cardinality(DOMAIN found \ DOMAIN cache) = 2

\* C22: a miss has no side effect: a call of test on a candidate whose
\* digest is not in remaining_hashes returns False, notifies no identifier
\* and leaves every field of the engine as it was.
C22_MissNoSideEffect ==
    [][((TestNext \/ Sample) /\ pc' # "raised" /\ digest' \notin remaining_hashes)
           => /\ result' = FALSE
              /\ printed' = << >>
              /\ UNCHANGED << found, remaining_hashes, total_hashes, attempts,
                              short_words >>]_vars

\* The ordered selections of 4 pairwise distinct positions of a pool of n
Selections(n) ==
    {q \in [1..4 -> 1..n] : \A i, j \in 1..4 : q[i] = q[j] => i = j}

\* Nested left-to-right order: the first position where two selections
\* differ decides
SelectionLess(r, q) ==
    \E i \in 1..4 : r[i] < q[i] /\ \A j \in 1..(i - 1) : r[j] = q[j]

\* The selections of a pool in that order, each joined to a candidate
SelectionOrder(pool) ==
    LET T == Selections(Len(pool))
        at(k) == CHOOSE q \in T : Cardinality({r \in T : SelectionLess(r, q)}) = k - 1
    IN  [k \in 1..Cardinality(T) |->
            pool[at(k)[1]] \o pool[at(k)[2]] \o pool[at(k)[3]] \o pool[at(k)[4]]]

\* C23: on a pool of n >= 4 distinct words, strategy 1 of
\* four_word_attack_smart tests the n(n-1)(n-2)(n-3) ordered selections of 4
\* pairwise distinct pool words, each once, in nested left-to-right order:
\* while it runs, the candidates it has yet to test are those of that order
\* from the next one on.
C23_NoRepeatSelections ==
    (/\ program = "wordonly"
     /\ pc = "strategy"
     /\ strat = FourWordAttack
     /\ phase = 1
     /\ Len(FourWordPool(words)) >= 4)
        => LET n == Len(FourWordPool(words))
               order == SelectionOrder(FourWordPool(words))
           IN  /\ Len(order) = n * (n - 1) * (n - 2) * (n - 3)
               /\ todo = SubSeq(order, pos + 1, Len(order))

\* On the pool (a, b, c, d) strategy 1 has tested its 24 candidates, the last
\* one d + c + b + a, with no early stop
C23_Witness ==
    /\ program = "wordonly"
    /\ pc = "strategy"
    /\ strat = FourWordAttack
    /\ phase = 1
    /\ Len(FourWordPool(words)) = 4
    /\ pos = 24
    /\ todo = << >>
    /\ digest = sha1_hex(<< "d", "c", "b", "a" >>)

(***************************************************************************)
(* Runs that nobody interrupts: the process keeps taking its steps          *)
(***************************************************************************)

\* The steps of main and of what it calls
RunSteps ==
    \/ LoadData
    \/ LoadCacheLine
    \/ CheckCache
    \/ StartStrategy
    \/ LeaveLoop
    \/ TestNext
    \/ Sample
    \/ NextPart
    \/ StrategyReturn
    \/ Merge
    \/ SaveOpen
    \/ SaveWrite
    \/ SaveClose
    \/ Summary

\* main has returned, or an exception has ended the process
Stopped == pc \in {"done", "raised"}

\* The process keeps running until it has stopped: weak fairness of RunSteps,
\* []<>(~ENABLED <<RunSteps>>_vars \/ <<RunSteps>>_vars), where a step of
\* RunSteps is enabled at every pc but those of Stopped
KeepsRunning == []<>Stopped \/ []<><<RunSteps>>_vars

SpecLive == InitPools /\ [][RunSteps]_vars /\ KeepsRunning

\* DONE: no digest is left to resolve, by the cache alone (no cracker was
\* constructed) or after a hit
RunDone == remaining_hashes = {}

\* EXHAUSTED: digests are left and every strategy of the list was started, in
\* the order of the list
RunExhausted ==
    /\ built
    /\ remaining_hashes # {}
    /\ started = [i \in 1..ListLen |-> i]

\* main is past its attack
PastAttack == pc \in {"merge", "save_open", "save_write", "summary", "done"}

\* C24: on a dictionary that is not empty every run ends in DONE or in
\* EXHAUSTED, in EXHAUSTED only after every strategy of the list ran in list
\* order, and saves the merged cache once, after the attack and not before.
C24_TerminatesAndSaves ==
    (load_dictionary(dictfile) # << >>) =>
        /\ <>(pc = "done" /\ saves = 1 /\ (RunDone \/ RunExhausted))
        /\ [](PastAttack => (RunDone \/ RunExhausted))
        /\ [](saves = IF pc \in {"summary", "done"} THEN 1 ELSE 0)

\* A run on a dictionary that is not empty ended EXHAUSTED, its cache saved
\* once
C24_Witness ==
    /\ pc = "done"
    /\ saves = 1
    /\ built
    /\ load_dictionary(dictfile) # << >>
    /\ RunExhausted

(***************************************************************************)
(* analyze_cracked_passwords (patternanalysis.py): the segmentation of one  *)
(* cracked plaintext into dictionary terms                                  *)
(***************************************************************************)

\* The longest prefix the loop looks up: range(min(len(remaining), 20), 0, -1)
MaxPrefixLen == 20

\* The lengths the `for length` loop tries, those whose prefix is a term
TermLengths(text, all_words) ==
    {l \in 1..(IF Len(text) < MaxPrefixLen THEN Len(text) ELSE MaxPrefixLen) :
         SubSeq(text, 1, l) \in all_words}

\* text[n:]
Drop(text, n) == SubSeq(text, n + 1, Len(text))

\* The inner `while remaining and remaining[0].isdigit()`
RECURSIVE SkipDigits(_)
SkipDigits(text) ==
    IF text # << >> /\ IsDigit(text[1]) THEN SkipDigits(Tail(text)) ELSE text

\* One iteration of `while remaining:`
SegmentStep ==
    /\ pc = "analyze"
    /\ remaining # << >>
    /\ LET ls == TermLengths(remaining, Range(words))
       IN  IF ls # {}
           THEN LET length == CHOOSE l \in ls : \A k \in ls : k <= l
                IN  /\ words_found' = Append(words_found, SubSeq(remaining, 1, length))
                    /\ remaining' = Drop(remaining, length)
           ELSE /\ words_found' = words_found
                /\ remaining' = IF IsDigit(remaining[1])
                                THEN SkipDigits(remaining)
                                ELSE Tail(remaining)
    /\ UNCHANGED << files, pc, run, id_to_hash, id_order, hash_to_ids, words, cache,
                    pending, engine, progress, saving, cachefile0, prev, ending >>

\* `while remaining:` ends
SegmentEnd ==
    /\ pc = "analyze"
    /\ remaining = << >>
    /\ pc' = "analyzed"
    /\ UNCHANGED << files, run, id_to_hash, id_order, hash_to_ids, words, cache,
                    pending, engine, progress, saving, cachefile0, prev, ending,
                    parsing >>

\* The longest plaintext of these runs but the long one
MaxTextLen == 4

\* A term one character longer than the longest prefix the loop looks up
LongTerm == [i \in 1..(MaxPrefixLen + 1) |-> "a"]

\* The plaintexts: every text of up to MaxTextLen characters over a, b, 0
\* and x, and the long term followed by b
Plaintexts ==
    SeqsUpTo({"a", "b", "0", "x"}, MaxTextLen) \cup {LongTerm \o << "b" >>}

\* The dictionaries, as load_dictionary returns them
AnalysisDicts ==
    { << >>,
      << << "a" >> >>,
      << << "a" >>, << "a", "b" >> >>,
      << << "a", "b" >>, << "a", "b", "a" >>, << "b" >> >>,
      << << "a" >>, LongTerm >> }

InitSegment ==
    /\ program = "patternanalysis"
    /\ pwfile = << >>
    /\ dictfile = << >>
    /\ cachefile = NoFile
    /\ pc = "analyze"
    /\ run = 1
    /\ id_to_hash = EmptyDict
    /\ id_order = << >>
    /\ hash_to_ids = EmptyDict
    /\ words \in AnalysisDicts
    /\ cache = EmptyDict
    /\ pending = << >>
    /\ found = EmptyDict
    /\ built = FALSE
    /\ remaining_hashes = {}
    /\ total_hashes = 0
    /\ attempts = 0
    /\ short_words = << >>
    /\ strat = 0
    /\ phase = 0
    /\ pos = 0
    /\ todo = << >>
    /\ started = << >>
    /\ digest = << >>
    /\ printed = << >>
    /\ result = FALSE
    /\ updated_cache = EmptyDict
    /\ towrite = << >>
    /\ saves = 0
    /\ cachefile0 = cachefile
    /\ prev = NoPrev
    /\ summary = << >>
    /\ raised = "none"
    /\ remaining \in Plaintexts
    /\ words_found = << >>

NextSegment ==
    \/ SegmentStep
    \/ SegmentEnd

SpecSegment == InitSegment /\ [][NextSegment]_vars

\* term is a prefix of text
IsPrefix(term, text) ==
    Len(term) <= Len(text) /\ SubSeq(text, 1, Len(term)) = term

\* C25: greedy segmentation: every iteration of the loop shortens the text
\* that remains (so the loop terminates); when a dictionary term is a prefix
\* of it, the term consumed and counted is the longest such term; only when
\* none is, a run of digits or one character is skipped.
C25_GreedyLongestPrefix ==
    [][(pc = "analyze" /\ remaining # << >> /\ pc' = "analyze") =>
        /\ Len(remaining') < Len(remaining)
        /\ LET terms == {t \in Range(words) : IsPrefix(t, remaining)}
           IN  IF terms # {}
               THEN \E t \in terms :
                        /\ \A u \in terms : Len(u) <= Len(t)
                        /\ words_found' = Append(words_found, t)
                        /\ remaining' = Drop(remaining, Len(t))
               ELSE /\ words_found' = words_found
                    /\ remaining' = IF IsDigit(remaining[1])
                                    THEN SkipDigits(remaining)
                                    ELSE Tail(remaining)]_vars

\* C26: from the construction of the cracker on, through every test call,
\* the keys of found and remaining_hashes are disjoint and together are the
\* keys of hash_to_ids, so remaining_hashes is empty exactly when every
\* target digest has an entry in found; when main constructs no cracker
\* (len(found) == len(hash_to_ids)) the keys of found are those of
\* hash_to_ids.
C26_Partition ==
    /\ built =>
           /\ DOMAIN found \cap remaining_hashes = {}
           /\ DOMAIN found \cup remaining_hashes = DOMAIN hash_to_ids
           /\ remaining_hashes = {} <=> DOMAIN hash_to_ids \subseteq DOMAIN found
    /\ (~built /\ PastAttack) => DOMAIN found = DOMAIN hash_to_ids

\* A run with one digest seeded from the cache, one credited by test and one
\* still to resolve
C26_Witness ==
    /\ built
    /\ pc = "strategy"
    /\ DOMAIN found \cap DOMAIN cache # {}
    /\ DOMAIN found \ DOMAIN cache # {}
    /\ remaining_hashes # {}

\* C27: every entry of found, seeded from the loaded cache or credited by
\* test, holds a plaintext whose digest is its key.
C27_PlaintextsCorrect ==
    \A d \in DOMAIN found : sha1_hex(found[d]) = d

=============================================================================
